---------------------------- MODULE Spec2Model ----------------------------
(***************************************************************************)
(* A model of keyverbum's TopicalPagerank keyphrase extractor              *)
(* (src/keyverbum/keywords.py, class TopicalPagerank).                     *)
(*                                                                         *)
(* Encoding of strings.  Python compares strings lexicographically; TLC    *)
(* cannot.  A surface token and a stem are therefore numbers whose order   *)
(* is the lexicographic order of the words they stand for (TokenWord,      *)
(* StemWord).  A phrase key, " ".join(sorted(phrase)), is the sorted       *)
(* sequence of its stems: comparing two keys as strings is comparing the   *)
(* two sequences lexicographically, because the joining blank sorts before *)
(* every letter.  A keyphrase of the output is the sequence of its tokens. *)
(***************************************************************************)
EXTENDS Integers, Sequences, FiniteSets, TLC

(***************************************************************************)
(* The vocabulary the documents are drawn from.  The morphological         *)
(* analyser, the fallback tagger and the stemmer are external: a token     *)
(* comes with the tag class they give it and with its stem.                *)
(***************************************************************************)
TokenWord == <<"Cat", "cat", "dog", "fox", "the", "x">>
StemWord == <<"cat", "dog", "fox", "x">>

Tokens == 1..Len(TokenWord)

\* The part of speech the loop finds for a token: p.tag.POS, or the tag of
\* nltk.pos_tag for a token pymorphy2 tags LATN.
pos(token) ==
    CASE token = 1 -> "NNP"
      [] token = 2 -> "NN"
      [] token = 3 -> "NN"
      [] token = 4 -> "NN"
      [] token = 5 -> "DT"
      [] token = 6 -> "NN"

tag_set == {"ADJF", "ADJS", "NOUN", "JJ", "JJR", "JJS", "NN", "NNS", "NNP", "NNPS"}

\* self.stemmer.transform(token): "Cat" and "cat" share the stem "cat"; the
\* stem of "x" is "x", of length 1.  0 stands for an empty (falsy) result.
stemmer_transform(token) ==
    CASE token = 1 -> 1
      [] token = 2 -> 1
      [] token = 3 -> 2
      [] token = 4 -> 3
      [] token = 6 -> 4
      [] OTHER -> 0

\* len(stemmed_word)
StemLen(stem) == Len(StemWord[stem])

-----------------------------------------------------------------------------
(* Sequences and ordered dictionaries *)

Max(S) == CHOOSE x \in S : \A y \in S : y <= x
Min(S) == CHOOSE x \in S : \A y \in S : x <= y

Range(s) == {s[i] : i \in 1..Len(s)}

\* All sequences over S of length at most n.
SeqsUpTo(S, n) == UNION {[1..k -> S] : k \in 0..n}

\* Lexicographic order of two sequences of numbers (Python's order of two
\* lists, and of two keys as strings).
RECURSIVE LexLess(_, _)
LexLess(s, t) ==
    IF s = <<>> THEN t # <<>>
    ELSE IF t = <<>> THEN FALSE
    ELSE IF Head(s) # Head(t) THEN Head(s) < Head(t)
    ELSE LexLess(Tail(s), Tail(t))

\* Python's order of two lists of keys (lists of strings).
RECURSIVE LexLessKeys(_, _)
LexLessKeys(s, t) ==
    IF s = <<>> THEN t # <<>>
    ELSE IF t = <<>> THEN FALSE
    ELSE IF Head(s) # Head(t) THEN LexLess(Head(s), Head(t))
    ELSE LexLessKeys(Tail(s), Tail(t))

\* The elements of a set in some order.
RECURSIVE SetToSeq(_)
SetToSeq(S) ==
    IF S = {} THEN <<>>
    ELSE LET e == CHOOSE x \in S : TRUE IN <<e>> \o SetToSeq(S \ {e})

\* sorted(phrase)
sorted(s) == SortSeq(s, LAMBDA a, b : a < b)

\* " ".join(sorted(phrase)): the key of a phrase.
PhraseKey(phrase) == sorted(phrase)

\* A dict keeps its keys in insertion order: a sequence of [key, val] items.
DictKeys(d) == [i \in 1..Len(d) |-> d[i].key]
DictHas(d, k) == \E i \in 1..Len(d) : d[i].key = k
DictGet(d, k) == d[CHOOSE i \in 1..Len(d) : d[i].key = k].val
\* d[k] = v: an existing key keeps its place.
DictSet(d, k, v) ==
    IF DictHas(d, k)
    THEN [i \in 1..Len(d) |-> IF d[i].key = k THEN [key |-> k, val |-> v] ELSE d[i]]
    ELSE Append(d, [key |-> k, val |-> v])

\* A dict whose order is never observed (self.unstem_map): a function.
EmptyMap == [x \in {} |-> 0]
MapSet(m, k, v) == [x \in DOMAIN m \cup {k} |-> IF x = k THEN v ELSE m[x]]

-----------------------------------------------------------------------------
(* TopicalPagerank._extract_phrases *)

\* One turn of the loop over self.text: st holds the local phrases (the last
\* one is the open buffer), self.unstem_map and counter.
ExtractToken(st, token) ==
    LET stemmed_word == stemmer_transform(token)
        n == Len(st.phrases)
    IN  IF pos(token) \in tag_set
        THEN IF stemmed_word # 0 /\ StemLen(stemmed_word) > 1
             THEN [phrases |-> [st.phrases EXCEPT ![n] = Append(@, stemmed_word)],
                   unstem_map |-> MapSet(st.unstem_map, stemmed_word,
                                         <<st.counter, token>>),
                   counter |-> st.counter + 1]
             ELSE [st EXCEPT !.counter = @ + 1]
        ELSE IF st.phrases[n] # <<>>
             THEN [st EXCEPT !.phrases = Append(@, <<>>), !.counter = @ + 1]
             ELSE [st EXCEPT !.counter = @ + 1]

RECURSIVE ExtractLoop(_, _)
ExtractLoop(st, text) ==
    IF text = <<>> THEN st
    ELSE ExtractLoop(ExtractToken(st, Head(text)), Tail(text))

\* [i for i, j in enumerate(phrases) if j == phrase], indices from 0.
Occurrences(segs, phrase) ==
    LET idx == {i \in 1..Len(segs) : segs[i] = phrase}
        RECURSIVE Asc(_)
        Asc(S) == IF S = {} THEN <<>> ELSE <<Min(S) - 1>> \o Asc(S \ {Min(S)})
    IN  Asc(idx)

\* The second loop: self.phrases[key] is assigned once per non-empty phrase.
RECURSIVE RecordLoop(_, _, _)
RecordLoop(ph, segs, n) ==
    IF n > Len(segs) THEN ph
    ELSE IF segs[n] # <<>>
         THEN RecordLoop(DictSet(ph, PhraseKey(segs[n]), Occurrences(segs, segs[n])),
                         segs, n + 1)
         ELSE RecordLoop(ph, segs, n + 1)

\* The local list phrases after the first loop.
Segments(text) ==
    ExtractLoop([phrases |-> << <<>> >>, unstem_map |-> EmptyMap, counter |-> 0],
                text).phrases

_extract_phrases(text, ph, um) ==
    LET st == ExtractLoop([phrases |-> << <<>> >>, unstem_map |-> um, counter |-> 0],
                          text)
    IN  [phrases |-> RecordLoop(ph, st.phrases, 1), unstem_map |-> st.unstem_map]

-----------------------------------------------------------------------------
(* CountVectorizer over the phrase keys (lines 227-228, 240-243)           *)
(* Every stem of a key is a lower-case word of two letters or more, so the *)
(* vectorizer's tokens of a key are its stems.                             *)

\* bag.toarray()[n][term]: how often the term occurs in the key.
TermCount(key, term) == Cardinality({i \in 1..Len(key) : key[i] = term})

\* The vocabulary of fit_transform: every term of every key.
Vocabulary(keys) == UNION {Range(keys[i]) : i \in 1..Len(keys)}

\* count.fit_transform(list(self.phrases.keys())): an empty vocabulary is a
\* ValueError.
fit_transform(keys) == [err |-> Vocabulary(keys) = {}, vocabulary |-> Vocabulary(keys)]

\* " ".join(sorted(str(i) for i in count.inverse_transform(row)[0])): the
\* terms of the row with a non-zero count, each once, sorted and joined.
RECURSIVE SetToSortedSeq(_)
SetToSortedSeq(S) ==
    IF S = {} THEN <<>> ELSE <<Min(S)>> \o SetToSortedSeq(S \ {Min(S)})

InverseTransformKey(key) == SetToSortedSeq(Range(key))

-----------------------------------------------------------------------------
(* scipy.cluster.hierarchy: pdist, linkage(method="average"), fcluster     *)
(* (lines 231, 237).  A Euclidean distance is kept as a whole number of    *)
(* thousandths; the average distance of two clusters is kept exactly, as   *)
(* the sum of the distances of their pairs of points and the number of     *)
(* pairs.                                                                   *)

DistScale == 1000

\* The largest k with k * k <= n.
RECURSIVE ISqrtFrom(_, _, _)
ISqrtFrom(n, lo, hi) ==
    IF lo = hi THEN lo
    ELSE LET mid == (lo + hi + 1) \div 2
         IN  IF mid * mid <= n THEN ISqrtFrom(n, mid, hi) ELSE ISqrtFrom(n, lo, mid - 1)

ISqrt(n) == ISqrtFrom(n, 0, 46340)  \* 46340 * 46340 < 2^31

\* pdist: the Euclidean distance of the count vectors of two keys.
SquaredDistance(ka, kb) ==
    LET V == Range(ka) \cup Range(kb)
        RECURSIVE Sum(_)
        Sum(S) == IF S = {} THEN 0
                  ELSE LET t == CHOOSE x \in S : TRUE
                           d == TermCount(ka, t) - TermCount(kb, t)
                       IN  d * d + Sum(S \ {t})
    IN  Sum(V)

Euclidean(ka, kb) == ISqrt(SquaredDistance(ka, kb) * DistScale * DistScale)

\* The condensed distance matrix, indexed by two observations i # j (from 1).
Pdist(keys) ==
    [pr \in {q \in (1..Len(keys)) \X (1..Len(keys)) : q[1] # q[2]} |->
        [s |-> Euclidean(keys[pr[1]], keys[pr[2]]), c |-> 1]]

\* a < b for two averages s / c.
AvgLess(a, b) == a.s * b.c < b.s * a.c

\* NPY_INFINITYF: above every distance.
Infinity == [s |-> 1, c |-> 0]

\* nn_chain's scan for the nearest neighbour of x: the first i, in index
\* order, whose distance is strictly below the minimum so far.
RECURSIVE NearestScan(_, _, _, _, _, _)
NearestScan(D, size, x, i, y, current_min) ==
    IF i > Len(size) THEN [y |-> y, min |-> current_min]
    ELSE IF size[i] = 0 \/ i = x
         THEN NearestScan(D, size, x, i + 1, y, current_min)
         ELSE IF AvgLess(D[<<x, i>>], current_min)
              THEN NearestScan(D, size, x, i + 1, i, D[<<x, i>>])
              ELSE NearestScan(D, size, x, i + 1, y, current_min)

\* The inner while loop: grow the chain until two mutual neighbours are found.
RECURSIVE GrowChain(_, _, _)
GrowChain(D, size, chain) ==
    LET x == chain[Len(chain)]
        prev == IF Len(chain) > 1 THEN chain[Len(chain) - 1] ELSE 0
        nn == NearestScan(D, size, x, 1, prev,
                          IF prev # 0 THEN D[<<x, prev>>] ELSE Infinity)
    IN  IF prev # 0 /\ nn.y = prev
        THEN [x |-> x, y |-> nn.y, min |-> nn.min, chain |-> chain]
        ELSE GrowChain(D, size, Append(chain, nn.y))

\* One merge of nn_chain.  members[i] are the observations of cluster i.
\* The new average distance to the merged cluster y is
\* (nx * d(i,x) + ny * d(i,y)) / (nx + ny).
RECURSIVE NNChain(_, _, _, _, _, _)
NNChain(D, size, members, chain, Z, k) ==
    IF k = 0 THEN Z
    ELSE LET start == IF chain = <<>>
                      THEN <<Min({i \in 1..Len(size) : size[i] > 0})>>
                      ELSE chain
             g == GrowChain(D, size, start)
             x == IF g.x > g.y THEN g.y ELSE g.x
             y == IF g.x > g.y THEN g.x ELSE g.y
             rest == SubSeq(g.chain, 1, Len(g.chain) - 2)
             size2 == [size EXCEPT ![x] = 0, ![y] = size[x] + size[y]]
             members2 == [members EXCEPT ![y] = members[x] \cup members[y]]
             D2 == [pr \in DOMAIN D |->
                      IF pr[1] = y /\ pr[2] # x /\ size2[pr[2]] # 0
                      THEN [s |-> D[<<pr[2], x>>].s + D[<<pr[2], y>>].s,
                            c |-> D[<<pr[2], x>>].c + D[<<pr[2], y>>].c]
                      ELSE IF pr[2] = y /\ pr[1] # x /\ size2[pr[1]] # 0
                      THEN [s |-> D[<<pr[1], x>>].s + D[<<pr[1], y>>].s,
                            c |-> D[<<pr[1], x>>].c + D[<<pr[1], y>>].c]
                      ELSE D[pr]]
             Z2 == Append(Z, [obs |-> members2[y], height |-> g.min])
         IN  IF D2 = D THEN NNChain(D, size2, members2, rest, Z2, k - 1)
             ELSE NNChain(D2, size2, members2, rest, Z2, k - 1)

\* linkage(bag.toarray(), "average"): the merges, each with the observations
\* it joins and its height.  One observation or none has no distance
\* matrix: ValueError.
linkage(keys) ==
    IF Len(keys) < 2 THEN [err |-> TRUE, Z |-> <<>>]
    ELSE LET D == Pdist(keys)
         IN  [err |-> D # D,
              Z |-> NNChain(D, [i \in 1..Len(keys) |-> 1],
                            [i \in 1..Len(keys) |-> {i}], <<>>, <<>>, Len(keys) - 1)]

\* max_d of predict, in thousandths.
max_d == 1250

\* fcluster(Z, max_d, criterion="distance"): a merge forms a flat cluster
\* when no merge below it, itself included, is higher than max_d.  The
\* result gives every observation the set of observations of its cluster.
fcluster(Z, n, t) ==
    LET low(m) == m.s <= t * m.c
        ok(i) == \A j \in 1..Len(Z) : Z[j].obs \subseteq Z[i].obs => low(Z[j].height)
        flat == {Z[i].obs : i \in {j \in 1..Len(Z) : ok(j)}}
    IN  [o \in 1..n |->
            IF \E S \in flat : o \in S
            THEN CHOOSE S \in flat : o \in S /\ \A T \in flat : o \in T => T \subseteq S
            ELSE {o}]

-----------------------------------------------------------------------------
(* Python floats (IEEE 754 binary64, round to nearest, ties to even).      *)
(* A non-negative float x is the whole number x * 2^FracBits, written in   *)
(* base 2^LimbBits as NumLimbs digits, the lowest first: TLC's integers    *)
(* have 32 bits.  Every float that a sum of quotients 1/d with d up to     *)
(* 2^10 can take has its last significant digit above 2^-FracBits, so the  *)
(* whole number is exact.                                                  *)

MantissaBits == 53
LimbBits == 15
NumLimbs == 6
FracBits == 75

RECURSIVE Pow2(_)
Pow2(k) == IF k = 0 THEN 1 ELSE 2 * Pow2(k - 1)

LimbBase == Pow2(LimbBits)

FloatZero == [i \in 1..NumLimbs |-> 0]

\* The carry into digit i of X + Y.
RECURSIVE Carry(_, _, _)
Carry(X, Y, i) ==
    IF i = 1 THEN 0 ELSE (X[i - 1] + Y[i - 1] + Carry(X, Y, i - 1)) \div LimbBase

\* X + Y, exactly.
ExactAdd(X, Y) == [i \in 1..NumLimbs |-> (X[i] + Y[i] + Carry(X, Y, i)) % LimbBase]

\* The number of binary digits of a limb.
RECURSIVE BitLength(_)
BitLength(n) == IF n = 0 THEN 0 ELSE 1 + BitLength(n \div 2)

\* The binary digit of weight 2^k of X, and whether every digit below it is 0.
Bit(X, k) == (X[(k \div LimbBits) + 1] \div Pow2(k % LimbBits)) % 2
ZeroBelow(X, k) ==
    /\ \A i \in 1..(k \div LimbBits) : X[i] = 0
    /\ X[(k \div LimbBits) + 1] % Pow2(k % LimbBits) = 0

\* X with the digits below 2^k cleared, and the number 2^k.
Truncate(X, k) ==
    [i \in 1..NumLimbs |->
        IF i < (k \div LimbBits) + 1 THEN 0
        ELSE IF i = (k \div LimbBits) + 1 THEN X[i] - (X[i] % Pow2(k % LimbBits))
        ELSE X[i]]
Unit(k) == [i \in 1..NumLimbs |-> IF i = (k \div LimbBits) + 1 THEN Pow2(k % LimbBits) ELSE 0]

\* Rounding of an exact value (X, and whether more non-zero digits follow
\* below its last one) to MantissaBits significant digits.
RoundToFloat(X, sticky) ==
    IF X = FloatZero THEN X
    ELSE LET top == Max({i \in 1..NumLimbs : X[i] # 0})
             msb == (top - 1) * LimbBits + BitLength(X[top]) - 1
             ulp == msb - (MantissaBits - 1)
         IN  IF ulp <= 0 THEN X
             ELSE LET guard == Bit(X, ulp - 1) = 1
                      below == sticky \/ ~ZeroBelow(X, ulp - 1)
                  IN  IF guard /\ (below \/ Bit(X, ulp) = 1)
                      THEN ExactAdd(Truncate(X, ulp), Unit(ulp))
                      ELSE Truncate(X, ulp)

\* x + y of two floats.
FloatAdd(X, Y) == RoundToFloat(ExactAdd(X, Y), FALSE)

\* The digits of floor(2^FracBits / d), from the highest down, by long
\* division; r is the remainder carried into digit i.
RECURSIVE InvDigits(_, _, _)
InvDigits(d, i, r) ==
    LET cur == r * LimbBase + (IF i = (FracBits \div LimbBits) + 1 THEN 1 ELSE 0)
    IN  IF i = 1 THEN [q |-> <<cur \div d>>, rem |-> cur % d]
        ELSE LET rec == InvDigits(d, i - 1, cur % d)
             IN  [q |-> Append(rec.q, cur \div d), rem |-> rec.rem]

\* 1 / d for an int d > 0: the float nearest to the quotient.
FloatInv(d) ==
    LET q == InvDigits(d, NumLimbs, 0)
    IN  RoundToFloat(q.q, q.rem # 0)

-----------------------------------------------------------------------------
(* TopicalPagerank.calc_distance *)

\* self.phrases[k] of a defaultdict(list): a missing key is inserted with
\* an empty list.
DefaultGet(ph, k) == IF DictHas(ph, k) THEN ph ELSE Append(ph, [key |-> k, val |-> <<>>])

\* abs(a - b)
abs(n) == IF n < 0 THEN 0 - n ELSE n

\* product(phrase_a_positions, phrase_b_positions[:1]): only the first
\* occurrence of phrase_b is paired.  C7 must fail when ProductDivisors is
\* replaced by it.
ProductDivisorsFirstOfB(pa, pb) ==
    [k \in 1..(IF pb = <<>> THEN 0 ELSE Len(pa)) |-> abs(pa[k] - pb[1])]

\* [abs(a - b) for a, b in product(phrase_a_positions, phrase_b_positions)]:
\* the divisors of line 216, in the order of the product.
ProductDivisors(pa, pb) ==
    [k \in 1..(Len(pa) * Len(pb)) |->
        abs(pa[((k - 1) \div Len(pb)) + 1] - pb[((k - 1) % Len(pb)) + 1])]

\* result += 1 / d for the divisors d from the k-th on.  err is set when a
\* divisor is 0: ZeroDivisionError.
RECURSIVE ProductLoop(_, _, _)
ProductLoop(divs, k, result) ==
    IF k > Len(divs) THEN [err |-> FALSE, val |-> result]
    ELSE IF divs[k] = 0 THEN [err |-> TRUE, val |-> result]
    ELSE LET r == FloatAdd(result, FloatInv(divs[k]))
         IN  IF r = FloatZero THEN ProductLoop(divs, k + 1, FloatZero)
             ELSE ProductLoop(divs, k + 1, r)

\* The two loops over topic_a and topic_b, each in its iteration order.
RECURSIVE DistanceLoop(_, _, _, _, _, _)
DistanceLoop(topic_a, topic_b, i, j, ph, result) ==
    IF i > Len(topic_a) THEN [err |-> FALSE, result |-> result, phrases |-> ph]
    ELSE IF j > Len(topic_b) THEN DistanceLoop(topic_a, topic_b, i + 1, 1, ph, result)
    ELSE IF topic_a[i] = topic_b[j]
         THEN DistanceLoop(topic_a, topic_b, i, j + 1, ph, result)
         ELSE LET ph2 == DefaultGet(DefaultGet(ph, topic_a[i]), topic_b[j])
                  r == ProductLoop(ProductDivisors(DictGet(ph2, topic_a[i]),
                                                   DictGet(ph2, topic_b[j])),
                                   1, result)
              IN  IF r.err
                  THEN [err |-> TRUE, result |-> r.val, phrases |-> ph2]
                  ELSE DistanceLoop(topic_a, topic_b, i, j + 1, ph2, r.val)

\* calc_distance(topic_a, topic_b) with self.phrases = ph: the float
\* returned, or err for a ZeroDivisionError, and self.phrases afterwards.
calc_distance(topic_a, topic_b, ph) == DistanceLoop(topic_a, topic_b, 1, 1, ph, FloatZero)

\* self.phrases[k] without the insertion: the list of k, [] when k is new.
Positions(ph, k) == IF DictHas(ph, k) THEN DictGet(ph, k) ELSE <<>>

\* Every divisor the loops of calc_distance(topic_a, topic_b) come to, in
\* their order, were no division to fail.
RECURSIVE Divisors(_, _, _, _, _)
Divisors(topic_a, topic_b, i, j, ph) ==
    IF i > Len(topic_a) THEN <<>>
    ELSE IF j > Len(topic_b) THEN Divisors(topic_a, topic_b, i + 1, 1, ph)
    ELSE IF topic_a[i] = topic_b[j] THEN Divisors(topic_a, topic_b, i, j + 1, ph)
    ELSE ProductDivisors(Positions(ph, topic_a[i]), Positions(ph, topic_b[j]))
            \o Divisors(topic_a, topic_b, i, j + 1, ph)

-----------------------------------------------------------------------------
(* networkx: Graph.add_weighted_edges_from and pagerank (lines 249-258)    *)
(* A score is a whole number of units of 1/PRScale; an edge weight enters  *)
(* the iteration as a whole number of units of 1/WeightScale.              *)

PRScale == 10000000
WeightScale == 1024
alpha == 85
max_iter == 100

\* A float weight in units of 1/WeightScale.
WeightUnits(X) ==
    X[NumLimbs] * WeightScale + X[NumLimbs - 1] \div (LimbBase \div WeightScale)

\* floor(t * w / s) for w <= s, without leaving 32 bits.
MulDiv(t, w, s) == (t \div s) * w + ((t % s) * w) \div s

SumOver(S, f(_)) ==
    LET RECURSIVE Acc(_)
        Acc(T) == IF T = {} THEN 0
                  ELSE LET e == CHOOSE x \in T : TRUE IN f(e) + Acc(T \ {e})
    IN  Acc(S)

\* One power iteration.  W[<<m, n>>] is the weight of the edge of nodes m
\* and n; a node whose weights sum to 0 is dangling and spreads its score
\* evenly.
PRStep(nodes, W, x) ==
    LET N == Cardinality(nodes)
        degree(m) == SumOver(nodes \ {m}, LAMBDA n : W[<<m, n>>])
        dangling == {m \in nodes : degree(m) = 0}
        danglesum == (alpha * SumOver(dangling, LAMBDA m : x[m])) \div 100
        flow(m, n) == IF degree(m) = 0 THEN 0
                      ELSE MulDiv((alpha * x[m]) \div 100, W[<<m, n>>], degree(m))
    IN  [n \in nodes |->
            SumOver(nodes \ {n}, LAMBDA m : flow(m, n))
            + danglesum \div N + ((100 - alpha) * (PRScale \div N)) \div 100]

\* err = sum(abs(x[n] - xlast[n])); the iteration stops when err < N * tol,
\* tol being 1.0e-6.
PRConverged(nodes, x, xlast) ==
    SumOver(nodes, LAMBDA n : abs(x[n] - xlast[n]))
        < Cardinality(nodes) * (PRScale \div 1000000)

\* Up to k iterations from x; it is the number of iterations done before.
RECURSIVE PRLoop(_, _, _, _)
PRLoop(nodes, W, x, k) ==
    IF k = 0 THEN [done |-> FALSE, x |-> x]
    ELSE LET x2 == PRStep(nodes, W, x)
         IN  IF x2 = x \/ PRConverged(nodes, x2, x) THEN [done |-> TRUE, x |-> x2]
             ELSE PRLoop(nodes, W, x2, k - 1)

\* max_iter iterations, in rounds of ten (the recursion stays shallow).
RECURSIVE PRRounds(_, _, _, _)
PRRounds(nodes, W, x, rounds) ==
    IF rounds = 0 THEN [done |-> FALSE, x |-> x]
    ELSE LET r == PRLoop(nodes, W, x, 10)
         IN  IF r.done THEN r ELSE PRRounds(nodes, W, r.x, rounds - 1)

\* nx.pagerank(topic_graph, weight="weight"): {} for a graph without nodes;
\* done is FALSE for PowerIterationFailedConvergence.
pagerank(nodes, W) ==
    IF nodes = {} THEN [done |-> TRUE, x |-> EmptyMap]
    ELSE PRRounds(nodes, W, [n \in nodes |-> PRScale \div Cardinality(nodes)],
                  max_iter \div 10)

-----------------------------------------------------------------------------
(* TopicalPagerank._identify_topics *)

\* topic_clusters (lines 238-244): the clusters in the order in which their
\* first key comes in self.phrases, each the frozenset of the strings
\* rebuilt from the rows of its keys.
TopicClusters(keys, clusters) ==
    LET firsts == {o \in 1..Len(keys) : \A q \in clusters[o] : o <= q}
        order == SetToSortedSeq(firsts)
    IN  [i \in 1..Len(order) |->
            {InverseTransformKey(keys[o]) : o \in clusters[order[i]]}]

\* The orders in which a frozenset of strings may be iterated: CPython's
\* order follows the hashes of the strings, which differ from run to run.
Perms(S) == {p \in [1..Cardinality(S) -> S] : \A i, j \in DOMAIN p : p[i] = p[j] => i = j}
IterOrders(C) ==
    {f \in [C -> UNION {Perms(c) : c \in C}] : \A c \in C : f[c] \in Perms(c)}

\* The list comprehension of lines 251-256: calc_distance(v, u) for every v
\* and every u # v of topic_clusters, in that order.  Each call reads, and
\* may extend, self.phrases; a ZeroDivisionError ends the loop.
RECURSIVE EdgeLoop(_, _, _, _, _, _)
EdgeLoop(tc, iter, i, j, ph, edges) ==
    IF i > Len(tc) THEN [err |-> FALSE, edges |-> edges, phrases |-> ph]
    ELSE IF j > Len(tc) THEN EdgeLoop(tc, iter, i + 1, 1, ph, edges)
    ELSE IF tc[j] = tc[i] THEN EdgeLoop(tc, iter, i, j + 1, ph, edges)
    ELSE LET d == calc_distance(iter[tc[i]], iter[tc[j]], ph)
         IN  IF d.err THEN [err |-> TRUE, edges |-> edges, phrases |-> d.phrases]
             ELSE EdgeLoop(tc, iter, i, j + 1, d.phrases,
                           Append(edges, [v |-> tc[i], u |-> tc[j], w |-> d.result]))

\* topic_graph after add_weighted_edges_from: its nodes, and the weight of
\* the edge of v and u, which is that of the last triple naming the two.
GraphNodes(edges) == {edges[i].v : i \in 1..Len(edges)} \cup {edges[i].u : i \in 1..Len(edges)}
GraphWeight(edges, v, u) ==
    LET hits == {i \in 1..Len(edges) : {edges[i].v, edges[i].u} = {v, u}}
    IN  IF hits = {} THEN 0 ELSE WeightUnits(edges[Max(hits)].w)

\* sorted([(b, list(a)) for a, b in pr.items()], reverse=True)
TopicBefore(a, b) ==
    \/ a.score > b.score
    \/ a.score = b.score /\ LexLessKeys(b.topic, a.topic)

SortedTopics(pr, iter) ==
    LET nodes == SetToSeq(DOMAIN pr)
    IN  SortSeq([i \in 1..Len(nodes) |-> [score |-> pr[nodes[i]], topic |-> iter[nodes[i]]]],
                TopicBefore)

\* Lines 227-244 of _identify_topics with self.phrases = ph: the vectors,
\* the clustering, and topic_clusters; err for the ValueError of
\* fit_transform or of linkage.
Clustering(ph) ==
    LET keys == DictKeys(ph)
        bag == fit_transform(keys)
        Z == linkage(keys)
        clusters == fcluster(Z.Z, Len(keys), max_d)
    IN  IF bag.err \/ Z.err THEN [err |-> TRUE, topic_clusters |-> <<>>]
        ELSE [err |-> FALSE, topic_clusters |-> TopicClusters(keys, clusters)]

\* _identify_topics with self.phrases = ph and self.topics = old_topics, c
\* being Clustering(ph) and the frozensets being iterated in the orders
\* iter: the error raised if any, self.phrases and self.topics afterwards.
_identify_topics(ph, old_topics, c, iter) ==
    LET Ranked(e, pr) ==
            IF e.err
            THEN [error |-> "ZeroDivisionError", phrases |-> e.phrases, topics |-> old_topics]
            ELSE IF ~pr.done
            THEN [error |-> "PowerIterationFailedConvergence", phrases |-> e.phrases,
                  topics |-> old_topics]
            ELSE [error |-> "", phrases |-> e.phrases, topics |-> SortedTopics(pr.x, iter)]
        Graph(e, nodes) ==
            Ranked(e, pagerank(nodes, [pr \in nodes \X nodes |->
                                          GraphWeight(e.edges, pr[1], pr[2])]))
        Edges(e) == Graph(e, GraphNodes(e.edges))
    IN  IF c.err
        THEN [error |-> "ValueError", phrases |-> ph, topics |-> old_topics]
        ELSE Edges(EdgeLoop(c.topic_clusters, iter, 1, 1, ph, <<>>))

-----------------------------------------------------------------------------
(* The extractor object and TopicalPagerank.predict *)

VARIABLES
    n_keywords,   \* self.n_keywords
    text,         \* self.text
    phrases,      \* self.phrases: key -> occurrence indices, in insertion order
    unstem_map,   \* self.unstem_map: stem -> (counter, token)
    topics,       \* self.topics: (score, list of keys), best first
    result,       \* what the last predict returned, or the error it raised
    calls,        \* the number of predict calls made on the object
    dist          \* the last direct call of calc_distance and what it returned

vars == <<n_keywords, text, phrases, unstem_map, topics, result, calls, dist>>

\* The default of n_keywords, and the values an extractor is built with.
DefaultNKeywords == 10
NKeywordsValues == {0 - 1, 0, 1, DefaultNKeywords}

\* s[:n + 1]: a slice that keeps one element more than s[:n].  C5 must
\* fail when SliceTo is replaced by it.
SliceToInclusive(s, n) ==
    IF n >= 0 THEN SubSeq(s, 1, IF n + 1 < Len(s) THEN n + 1 ELSE Len(s))
    ELSE SubSeq(s, 1, IF Len(s) + n + 1 > 0 THEN Len(s) + n + 1 ELSE 0)

\* s[:n] of a Python list.
SliceTo(s, n) ==
    IF n >= 0 THEN SubSeq(s, 1, IF n < Len(s) THEN n ELSE Len(s))
    ELSE SubSeq(s, 1, IF Len(s) + n > 0 THEN Len(s) + n ELSE 0)

\* sorted([self.unstem_map[i] for i in first_kp.split(" ")]) and the join
\* of the tokens: tuples (counter, token) in Python's order.
TupleLess(a, b) == a[1] < b[1] \/ (a[1] = b[1] /\ a[2] < b[2])
Unstem(first_kp, um) ==
    LET unstem_kp_sort == SortSeq([i \in 1..Len(first_kp) |-> um[first_kp[i]]], TupleLess)
    IN  [i \in 1..Len(unstem_kp_sort) |-> unstem_kp_sort[i][2]]

\* The loop of lines 281-286 over self.topics[: self.n_keywords].
RECURSIVE SelectLoop(_, _, _)
SelectLoop(tops, um, out) ==
    IF tops = <<>> THEN [error |-> "", value |-> out]
    ELSE LET topic == Head(tops).topic
         IN  IF topic = <<>> THEN SelectLoop(Tail(tops), um, out)
             ELSE IF \E i \in 1..Len(topic[1]) : topic[1][i] \notin DOMAIN um
             THEN [error |-> "KeyError", value |-> <<>>]
             ELSE SelectLoop(Tail(tops), um, Append(out, Unstem(topic[1], um)))

\* predict(X) on an extractor whose fields are n, ph, um and tp, the
\* frozensets of the call being iterated in the orders iter: the fields
\* afterwards and what the call returns or raises.  What an exception
\* leaves behind on the object stays.
predict(X, n, ph, um, tp, iter) ==
    LET Selected(e, t, sel) ==
            [text |-> X,
             unstem_map |-> e.unstem_map,
             phrases |-> t.phrases,
             topics |-> t.topics,
             result |-> IF t.error # "" THEN [status |-> t.error, value |-> <<>>]
                        ELSE IF sel.error # "" THEN [status |-> sel.error, value |-> <<>>]
                        ELSE [status |-> "ok", value |-> sel.value]]
        Identified(e, t) ==
            Selected(e, t, SelectLoop(SliceTo(t.topics, n), e.unstem_map, <<>>))
        Extracted(e) ==
            Identified(e, _identify_topics(e.phrases, tp, Clustering(e.phrases), iter))
    IN  Extracted(_extract_phrases(X, ph, um))

\* The iteration orders a call of predict(X) may meet.
PredictOrders(X, ph, um) ==
    IterOrders(Range(Clustering(_extract_phrases(X, ph, um).phrases).topic_clusters))

NoDist == [called |-> FALSE, topic_a |-> <<>>, topic_b |-> <<>>,
           err |-> FALSE, value |-> FloatZero, divisors |-> <<>>]

\* TopicalPagerank(morph, stemmer, n_keywords)
Init ==
    /\ n_keywords \in NKeywordsValues
    /\ text = <<>>
    /\ phrases = <<>>
    /\ unstem_map = EmptyMap
    /\ topics = <<>>
    /\ result = [status |-> "none", value |-> <<>>]
    /\ calls = 0
    /\ dist = NoDist

DoPredict(X) ==
    LET Returned(r) ==
            /\ text' = r.text
            /\ unstem_map' = r.unstem_map
            /\ phrases' = r.phrases
            /\ topics' = r.topics
            /\ result' = r.result
    IN  /\ \E iter \in PredictOrders(X, phrases, unstem_map) :
             Returned(predict(X, n_keywords, phrases, unstem_map, topics, iter))
        /\ calls' = calls + 1
        /\ UNCHANGED <<n_keywords, dist>>

-----------------------------------------------------------------------------
(* Spec: one extractor, used for up to MaxCalls documents of up to MaxLen  *)
(* tokens each.                                                             *)

MaxLen == 3
MaxCalls == 2

\* Documents over "Cat", "cat", "dog", "fox" and "the".
Docs == SeqsUpTo(1..5, MaxLen)

Predict == calls < MaxCalls /\ \E X \in Docs : DoPredict(X)

Next == Predict

Spec == Init /\ [][Next]_vars

-----------------------------------------------------------------------------
(* SpecFresh: one call of predict on a freshly built extractor, for        *)
(* documents of up to MaxLenFresh tokens.                                   *)

MaxLenFresh == 6

\* Documents over "Cat", "cat", "dog", "fox" and "the".
DocsFresh == SeqsUpTo(1..5, MaxLenFresh)

PredictFresh == calls = 0 /\ \E X \in DocsFresh : DoPredict(X)

NextFresh == PredictFresh

SpecFresh == Init /\ [][NextFresh]_vars

-----------------------------------------------------------------------------
(* SpecExtract: _extract_phrases alone, on a freshly built extractor, for  *)
(* documents of up to MaxLenExtract tokens.                                 *)

MaxLenExtract == 5

\* Documents over the whole vocabulary.
DocsExtract == SeqsUpTo(Tokens, MaxLenExtract)

ExtractPhrases ==
    /\ calls = 0 /\ text = <<>>
    /\ \E X \in DocsExtract \ {<<>>} :
         LET e == _extract_phrases(X, phrases, unstem_map)
         IN  /\ text' = X
             /\ phrases' = e.phrases
             /\ unstem_map' = e.unstem_map
    /\ UNCHANGED <<n_keywords, topics, result, calls, dist>>

NextExtract == ExtractPhrases

SpecExtract == Init /\ [][NextExtract]_vars

-----------------------------------------------------------------------------
(* SpecDist: calc_distance alone.  It reads nothing of the extractor but   *)
(* self.phrases, so a behaviour starts from an extractor that holds the    *)
(* lists of two keys, with indices up to MaxIndex, and calls it on two     *)
(* groups of up to MaxGroup keys; the third key of DistKeys is new to      *)
(* self.phrases.                                                            *)

MaxIndex == 3
MaxGroup == 2

DistKeys == <<PhraseKey(<<1>>), PhraseKey(<<2>>), PhraseKey(<<3>>)>>

IndexLists == {SetToSortedSeq(S) : S \in (SUBSET (0..MaxIndex)) \ {{}}}

InitialSegment(L) == Range(L) = 0..(Len(L) - 1)

\* The lists two keys can hold: those of one document, whose segments are
\* of the one key or the other, or the list one document left for the one
\* key and the list of a later document of the other key alone.
HeldLists(L1, L2) ==
    \/ Range(L1) \cap Range(L2) = {} /\ Range(L1) \cup Range(L2) = 0..(Len(L1) + Len(L2) - 1)
    \/ InitialSegment(L1)
    \/ InitialSegment(L2)

Groups == {g \in SeqsUpTo(1..Len(DistKeys), MaxGroup) :
              g # <<>> /\ \A i, j \in 1..Len(g) : i # j => g[i] # g[j]}

GroupKeys(g) == [i \in 1..Len(g) |-> DistKeys[g[i]]]

InitDist ==
    /\ n_keywords = DefaultNKeywords
    /\ text = <<>>
    /\ \E L1, L2 \in IndexLists :
         /\ HeldLists(L1, L2)
         /\ phrases = <<[key |-> DistKeys[1], val |-> L1], [key |-> DistKeys[2], val |-> L2]>>
    /\ unstem_map = EmptyMap
    /\ topics = <<>>
    /\ result = [status |-> "none", value |-> <<>>]
    /\ calls = 0
    /\ dist = NoDist

CalcDistance ==
    /\ ~dist.called
    /\ \E ga, gb \in Groups :
         LET topic_a == GroupKeys(ga)
             topic_b == GroupKeys(gb)
             d == calc_distance(topic_a, topic_b, phrases)
         IN  /\ dist' = [called |-> TRUE, topic_a |-> topic_a, topic_b |-> topic_b,
                         err |-> d.err,
                         value |-> IF d.err THEN FloatZero ELSE d.result,
                         divisors |-> Divisors(topic_a, topic_b, 1, 1, phrases)]
             /\ phrases' = d.phrases
    /\ UNCHANGED <<n_keywords, text, unstem_map, topics, result, calls>>

NextDist == CalcDistance

SpecDist == InitDist /\ [][NextDist]_vars

-----------------------------------------------------------------------------
(* The properties.                                                          *)

\* The keys of the phrase segments of a document.
SegmentKeys(X) == {PhraseKey(seg) : seg \in Range(Segments(X)) \ {<<>>}}

\* self.phrases of a fresh extractor after _extract_phrases on X.
FreshPhrases(X) == _extract_phrases(X, <<>>, EmptyMap).phrases

\* What predict(X) may return on a freshly built extractor.
FreshResults(X, n) ==
    {predict(X, n, <<>>, EmptyMap, <<>>, iter).result :
        iter \in PredictOrders(X, <<>>, EmptyMap)}

NoContent(X) == \A i \in 1..Len(X) : pos(X[i]) \notin tag_set

\* C1 (SpecFresh): predict on a fresh extractor, for a document none of
\* whose tokens has a tag of the content tag set, returns the empty list
\* and raises no error.
C1_NoContentGivesEmptyList ==
    (calls = 1 /\ NoContent(text)) => result = [status |-> "ok", value |-> <<>>]

\* C2 (SpecFresh): when the document has exactly one distinct phrase key
\* and n_keywords >= 1, predict on a fresh extractor raises nothing and
\* returns a list of one keyphrase, made of the surface tokens of the key.
C2_OnePhraseGivesOneKeyphrase ==
    (calls = 1 /\ Cardinality(SegmentKeys(text)) = 1 /\ n_keywords >= 1) =>
        /\ result.status = "ok"
        /\ Len(result.value) = 1
        /\ \A k \in SegmentKeys(text) :
              Range(result.value[1]) = {unstem_map[stem][2] : stem \in Range(k)}

\* C3 (Spec): whatever calls were made before on the same extractor,
\* predict(D) returns what predict(D) returns on a fresh extractor.
C3_EarlierCallsHaveNoInfluence ==
    calls >= 1 => result \in FreshResults(text, n_keywords)

\* C4 (SpecFresh): two independent runs of predict on the same document
\* with the same n_keywords return the same list: every run returns what
\* this run returned.
C4_RunsAgree ==
    calls = 1 => FreshResults(text, n_keywords) = {result}

\* C5 (SpecFresh), as amended: for every n_keywords >= 0 the list predict
\* returns has at most n_keywords elements.
C5_AtMostNKeywords ==
    (calls = 1 /\ result.status = "ok" /\ n_keywords >= 0) =>
        Len(result.value) <= n_keywords

\* C5, witness: two topics or more were ranked and n_keywords = 1 cut the
\* output down to one keyphrase.
C5_Truncated ==
    calls = 1 /\ result.status = "ok" /\ n_keywords = 1
        /\ Len(topics) >= 2 /\ Len(result.value) = 1

\* C5 as stated, for every integer n_keywords: fails for n_keywords = -1,
\* where topics[:-1] keeps all the topics but the last.
C5_AtMostNKeywordsAnyInteger ==
    (calls = 1 /\ result.status = "ok") => Len(result.value) <= n_keywords

\* The smallest of a set of keys in the order of strings.
LexMin(K) == CHOOSE k \in K : \A q \in K : q = k \/ LexLess(k, q)

\* C6 (SpecFresh): the keyphrase of each of the first n_keywords topics is
\* built from the lexicographically smallest key of the topic's cluster.
C6_FirstIsLexicographicallySmallest ==
    (calls = 1 /\ result.status = "ok") =>
        LET top == SliceTo(topics, n_keywords)
        IN  /\ Len(result.value) = Len(top)
            /\ \A i \in 1..Len(top) :
                  result.value[i] = Unstem(LexMin(Range(top[i].topic)), unstem_map)

\* The sequence s with its elements in ascending order.
Ascending(s) == SortSeq(s, LAMBDA a, b : a < b)

\* C7 (SpecDist), as amended: calc_distance(A, B) and calc_distance(B, A)
\* raise ZeroDivisionError for the same arguments and otherwise add the
\* same terms 1/|i-j|, each as often in the one call as in the other: the
\* two floats are roundings of one and the same exact sum.
C7_SameTermsBothWays ==
    dist.called =>
        /\ Ascending(dist.divisors)
             = Ascending(Divisors(dist.topic_b, dist.topic_a, 1, 1, phrases))
        /\ dist.err = calc_distance(dist.topic_b, dist.topic_a, phrases).err

\* C7, witness: a call that added several terms and returned a float that
\* the call with the groups exchanged does not return.
C7_RoundedDifferently ==
    /\ dist.called /\ ~dist.err /\ Len(dist.divisors) >= 2
    /\ calc_distance(dist.topic_b, dist.topic_a, phrases).result # dist.value

\* C7 as stated: the two calls return the same float.
C7_SameFloatBothWays ==
    dist.called =>
        LET back == calc_distance(dist.topic_b, dist.topic_a, phrases)
        IN  back.err = dist.err /\ (~back.err => back.result = dist.value)

\* C8 (Spec): no segment index is in the lists of two distinct keys of
\* self.phrases, and predict never raises ZeroDivisionError.
C8_NoSharedIndexNoZeroDivision ==
    /\ \A i, j \in 1..Len(phrases) :
          i # j => Range(phrases[i].val) \cap Range(phrases[j].val) = {}
    /\ result.status # "ZeroDivisionError"

\* C9 (SpecExtract): after _extract_phrases on a fresh extractor the list
\* stored for each phrase key holds the indices of all the segments of
\* that key, and is not empty.
C9_AllOccurrencesRecorded ==
    text # <<>> =>
        \A k \in SegmentKeys(text) :
            /\ DictHas(phrases, k)
            /\ DictGet(phrases, k) # <<>>
            /\ DictGet(phrases, k)
                 = SetToSortedSeq({i - 1 : i \in {q \in 1..Len(Segments(text)) :
                                       /\ Segments(text)[q] # <<>>
                                       /\ PhraseKey(Segments(text)[q]) = k}})

\* C10 (SpecFresh): when the clustering puts the two or more keys of the
\* document into one cluster, self.topics is that cluster alone with score
\* 1.0, and predict with n_keywords >= 1 returns one keyphrase.
C10_SingleClusterGivesOneKeyphrase ==
    LET c == Clustering(FreshPhrases(text))
    IN  (/\ calls = 1
         /\ Cardinality(SegmentKeys(text)) >= 2
         /\ ~c.err /\ Len(c.topic_clusters) = 1
         /\ n_keywords >= 1) =>
            /\ result.status = "ok"
            /\ Len(result.value) = 1
            /\ Len(topics) = 1
            /\ topics[1].score = PRScale
            /\ Range(topics[1].topic) = c.topic_clusters[1]

=============================================================================
